---- MODULE Spec2Model ----
(***************************************************************************)
(* The HGP model decoder of mortar: the mesh walker processMesh in its two *)
(* forms (HGPModel::processMesh over a loaded buffer, src/hgp.cpp, and     *)
(* Mortar::LSW::processMesh over a seek/read stream, src/unnamed/part_000) *)
(* and the parts of the HGPModel constructor that feed it: the material    *)
(* loop, the transform loop and the layer/slot loop.                       *)
(*                                                                         *)
(* A file is a sequence of bytes.  The files explored are built from a     *)
(* small descriptor (FileOf) by laying the format's records out with the   *)
(* struct layouts of src/hgp.cpp; the decoders read nothing but the bytes. *)
(*                                                                         *)
(* A uint32_t value v is held as the integer with the same 32 bit pattern  *)
(* (v for v < 2^31, v - 2^32 otherwise): TLC's integers are 32 bits wide.  *)
(***************************************************************************)
EXTENDS Integers, Sequences, FiniteSets, TLC

VARIABLES
  file,   \* what the input file holds: the descriptor it was built from
  buf,    \* the bytes of the input file
  bulk,   \* HGPModel::processMesh: locals, the model's chunks, the strides
  strm,   \* Mortar::LSW::processMesh: the same, plus the stream cursor
  turn,   \* which of the two walkers takes the next step
  ctor,   \* HGPModel::HGPModel: the transform loop and the layer loop
  mat     \* HGPModel::HGPModel: one iteration of the material loop

vars == <<file, buf, bulk, strm, turn, ctor, mat>>

---------------------------------------------------------------------------
(* Bounds of the explored inputs.                                          *)

MaxMeshes == 2
MaxChunks == 2
MaxElems == 2
NumVB == 2
MaxTree == 3
CtorMeshes == 2
MaxLayers == 3

\* Capacity of the modelled chunk list and diagnostic list: one more than
\* the longest list a file without a cycle produces in one walk.
MaxOut == MaxMeshes * MaxChunks + 1
MaxDiag == MaxMeshes + 1

---------------------------------------------------------------------------
(* 32 bit arithmetic.                                                      *)

MaxInt32 == (2^30 - 1) + 2^30
MinInt32 == (-(2^30)) - 2^30

\* uint32_t a + small n, modulo 2^32, on bit patterns.
AddU32(a, n) ==
  IF a > MaxInt32 - n THEN (a + MinInt32) + (n + MinInt32) ELSE a + n

\* uint32_t a - 1, modulo 2^32, converted to int: the same bit pattern.
SubOneToInt(a) == IF a = MinInt32 THEN MaxInt32 ELSE a - 1

RECURSIVE BitAnd(_, _, _)
\* Bitwise and of the low n bits of two non-negative numbers.
BitAnd(a, b, n) ==
  IF n = 0 THEN 0
  ELSE (IF a % 2 = 1 /\ b % 2 = 1 THEN 1 ELSE 0)
       + 2 * BitAnd(a \div 2, b \div 2, n - 1)

---------------------------------------------------------------------------
(* Struct layouts of src/hgp.cpp: a sequence of <<field, bytes>>.           *)

HGPHeader ==
  << <<"unk_0000", 4>>, <<"strings_offset", 4>>,
     <<"texture_header_offset", 4>>, <<"material_header_offset", 4>>,
     <<"unk_0010", 4>>, <<"vertex_header_offset", 4>>,
     <<"model_header_offset", 4>>, <<"unk_001C", 8>>, <<"unk_0024", 4>>,
     <<"unk_0028", 4>>, <<"file_length", 4>> >>

HGPLayerHeader ==
  << <<"name_offset", 4>>, <<"mesh_header_list_offsets", 16>> >>

HGPMeshHeader ==
  << <<"unk_0000", 12>>, <<"mesh_offset", 4>>, <<"unk_0010", 4>> >>

HGPMesh ==
  << <<"next_offset", 4>>, <<"unk_0004", 4>>, <<"material_idx", 4>>,
     <<"vertex_type", 4>>, <<"unk_0010", 12>>, <<"vertex_buffer_idx", 4>>,
     <<"unk_0020", 16>>, <<"chunk_offset", 4>>, <<"unk_0034", 16>> >>

HGPChunk ==
  << <<"next_offset", 4>>, <<"primitive_type", 4>>, <<"num_elements", 2>>,
     <<"unk_000A", 2>>, <<"elements_offset", 4>>, <<"unk_0010", 64>> >>

RECURSIVE SizeOf(_)
SizeOf(layout) ==
  IF layout = <<>> THEN 0 ELSE Head(layout)[2] + SizeOf(Tail(layout))

RECURSIVE OffsetOf(_, _)
\* offsetof(struct, field): the sizes of the fields before it.
OffsetOf(layout, f) ==
  IF Head(layout)[1] = f THEN 0
  ELSE Head(layout)[2] + OffsetOf(Tail(layout), f)

BODY_OFFSET == 48

---------------------------------------------------------------------------
(* Reading a file's bytes.                                                 *)

InFile(img, a, w) == a >= 0 /\ a + w <= Len(img)

ByteAt(img, a) == img[a + 1]

\* A little-endian uint16_t.
U16At(img, a) == ByteAt(img, a) + 256 * ByteAt(img, a + 1)

\* A little-endian uint32_t, as its bit pattern.
U32At(img, a) ==
  LET b3 == ByteAt(img, a + 3)
  IN  ByteAt(img, a) + 256 * ByteAt(img, a + 1) + 65536 * ByteAt(img, a + 2)
      + 16777216 * (IF b3 >= 128 THEN b3 - 256 ELSE b3)

---------------------------------------------------------------------------
(* The input files.  A descriptor d says how many meshes the chain has     *)
(* (nm), which vertex type and vertex block the first one names (vsel),    *)
(* how many chunks (nc) and elements (ne) the first mesh and chunk have,   *)
(* how the file is malformed (mal), the mesh tree's parent indices (tree), *)
(* the number of layers (nlayers) and which layer slots are set (pat).     *)

\* Bytes of fields whose meaning is unknown, and of unused space.
Filler(w) == [i \in 1..w |-> 205]

\* The w bytes of a little-endian integer.
LE(v, w) == [i \in 1..w |-> (v \div (256 ^ (i - 1))) % 256]

RECURSIVE Flat(_)
Flat(ss) == IF ss = <<>> THEN <<>> ELSE Head(ss) \o Flat(Tail(ss))

\* A field holding the values vs, each of w bytes.
Field(vs, w) == Flat([k \in 1..Len(vs) |-> LE(vs[k], w)])

RECURSIVE Emit(_, _)
\* A record laid out as the struct: vals maps a field to its values.
Emit(layout, vals) ==
  IF layout = <<>> THEN <<>>
  ELSE LET f == Head(layout)[1]
           w == Head(layout)[2]
       IN  (IF f \in DOMAIN vals
              THEN Field(vals[f], w \div Len(vals[f]))
              ELSE Filler(w))
           \o Emit(Tail(layout), vals)

\* <<vertex_type, vertex_buffer_idx>> of a mesh record: the two known
\* types and an unknown one, and block indices 0 and NumVB + 1.
Profiles ==
  << <<89, 1>>, <<93, 2>>, <<7, 1>>, <<89, 0>>, <<93, NumVB + 1>> >>

Kinds == {"none", "hdr0", "meshloop", "chunkloop", "cut", "far", "wrap"}

\* The part of a chunk record the decoders read.
ChunkHead == SubSeq(HGPChunk, 1, 5)

\* Body offsets of the records.
HdrOff == SizeOf(ChunkHead)
MeshOff(m) == HdrOff + SizeOf(HGPMeshHeader) + SizeOf(HGPMesh) * (m - 1)
ChunkOff(m, c) ==
  MeshOff(MaxMeshes + 1) + SizeOf(HGPChunk) * ((m - 1) * MaxChunks + (c - 1))
ElemOff(m, c) ==
  ChunkOff(MaxMeshes + 1, 1) + 2 * MaxElems * ((m - 1) * MaxChunks + (c - 1))
LayerOff(i) == ElemOff(MaxMeshes + 1, 1) + SizeOf(HGPLayerHeader) * i
ArrOff(d, i, j) ==
  LayerOff(MaxLayers) + 4 * Len(d.tree) * (2 * i + (j \div 2))

Prof(d, m) == Profiles[((d.vsel + m - 2) % Len(Profiles)) + 1]
NumCh(d, m) == (d.nc + m - 1) % (MaxChunks + 1)
NumEl(d, m, c) == (d.ne + m + c - 2) % (MaxElems + 1)
Elem(m, c, e) == 100 * m + 10 * c + e
Prim(m, c) == 3 + c
MatIdx(m) == 10 + m

MeshVals(d, m) ==
  [next_offset |->
     << IF m < d.nm THEN MeshOff(m + 1)
        ELSE IF d.mal = "meshloop" THEN MeshOff(1) ELSE 0 >>,
   material_idx |-> << MatIdx(m) >>,
   vertex_type |-> << Prof(d, m)[1] >>,
   vertex_buffer_idx |-> << Prof(d, m)[2] >>,
   chunk_offset |-> << IF NumCh(d, m) = 0 THEN 0 ELSE ChunkOff(m, 1) >>]

ChunkVals(d, m, c) ==
  [next_offset |->
     << IF c < NumCh(d, m) THEN ChunkOff(m, c + 1)
        ELSE IF d.mal = "chunkloop" /\ m = 1 THEN ChunkOff(1, 1) ELSE 0 >>,
   primitive_type |-> << Prim(m, c) >>,
   num_elements |-> << NumEl(d, m, c) >>,
   elements_offset |-> << ElemOff(m, c) >>]

\* What lies at body offset 0, read as a chunk record when a mesh's
\* chunk_offset is 0: one element, taken from body offset 8.
Block0Vals ==
  [next_offset |-> <<0>>, primitive_type |-> <<6>>, num_elements |-> <<1>>,
   unk_000A |-> <<0>>, elements_offset |-> <<8>>]

SlotBits(d, i) == (d.pat + 3 * i) % 16
SlotSet(d, i, j) == (SlotBits(d, i) \div (2 ^ j)) % 2 = 1
SlotVal(d, i, j) ==
  IF ~SlotSet(d, i, j) THEN 0
  ELSE IF j % 2 = 0 THEN ArrOff(d, i, j) ELSE HdrOff
ArrVal(d, i, j, k) == IF (i + (j \div 2) + k) % 3 = 2 THEN 0 ELSE HdrOff

MeshBytes(d) ==
  Flat([m \in 1..MaxMeshes |->
          IF m <= d.nm THEN Emit(HGPMesh, MeshVals(d, m))
          ELSE Filler(SizeOf(HGPMesh))])

ChunkBytes(d) ==
  Flat([x \in 1..(MaxMeshes * MaxChunks) |->
          LET m == ((x - 1) \div MaxChunks) + 1
              c == ((x - 1) % MaxChunks) + 1
          IN  IF m <= d.nm /\ c <= NumCh(d, m)
                THEN Emit(HGPChunk, ChunkVals(d, m, c))
                ELSE Filler(SizeOf(HGPChunk))])

ElemBytes(d) ==
  Flat([x \in 1..(MaxMeshes * MaxChunks * MaxElems) |->
          LET y == (x - 1) \div MaxElems
              m == (y \div MaxChunks) + 1
              c == (y % MaxChunks) + 1
              e == ((x - 1) % MaxElems) + 1
          IN  IF m <= d.nm /\ c <= NumCh(d, m) /\ e <= NumEl(d, m, c)
                THEN LE(Elem(m, c, e), 2)
                ELSE Filler(2)])

LayerBytes(d) ==
  Flat([x \in 1..MaxLayers |->
          IF x <= d.nlayers
            THEN Emit(HGPLayerHeader,
                      [name_offset |-> <<0>>,
                       mesh_header_list_offsets |->
                         [y \in 1..4 |-> SlotVal(d, x - 1, y - 1)]])
            ELSE Filler(SizeOf(HGPLayerHeader))])
  \o Flat([x \in 1..(2 * MaxLayers * Len(d.tree)) |->
            LET n == Len(d.tree)
                s == (x - 1) \div n
            IN  LE(ArrVal(d, s \div 2, 2 * (s % 2), (x - 1) % n), 4)])

WholeFile(d) ==
  Emit(HGPHeader,
       [strings_offset |-> <<0>>, texture_header_offset |-> <<0>>,
        material_header_offset |-> <<0>>, vertex_header_offset |-> <<0>>,
        model_header_offset |-> <<0>>, file_length |-> <<0>>])
  \o Emit(ChunkHead, Block0Vals)
  \o Emit(HGPMeshHeader,
          [mesh_offset |-> << IF d.nm = 0 THEN 0 ELSE MeshOff(1) >>])
  \o MeshBytes(d) \o ChunkBytes(d) \o ElemBytes(d)
  \o (IF d.nlayers > 0 THEN LayerBytes(d) ELSE <<>>)

\* A file cut short ends inside the first chunk's elements.
FileOf(d) ==
  IF d.mal = "cut"
    THEN SubSeq(WholeFile(d), 1, BODY_OFFSET + ElemOff(1, 1) + MaxElems)
    ELSE WholeFile(d)

WalkDescs ==
  { d \in [nm : 0..MaxMeshes, vsel : 1..Len(Profiles), nc : 0..MaxChunks,
           ne : 0..MaxElems, mal : Kinds, tree : {<<>>}, nlayers : {0},
           pat : {0}] :
      /\ d.mal = "meshloop" => d.nm >= 1
      /\ d.mal = "chunkloop" => d.nm >= 1 /\ d.nc >= 1
      /\ d.mal = "cut" => d.nm = 1 /\ d.nc >= 1
      /\ d.mal \in {"far", "wrap"} => d.nm >= 1 /\ d.nc >= 1
      /\ d.mal \in {"hdr0", "far", "wrap"} => d.vsel = 1 /\ d.ne = 1 }

RootsOrChain(n) ==
  { [i \in 1..n |-> -1], [i \in 1..n |-> i - 2] }

CtorDescs ==
  { d \in [nm : 0..MaxMeshes, vsel : 1..Len(Profiles), nc : 0..MaxChunks,
           ne : {1}, mal : {"none"},
           tree : UNION { RootsOrChain(n) : n \in 0..CtorMeshes },
           nlayers : 0..MaxLayers, pat : 0..15] :
      \/ d.nm = 2 /\ d.vsel = 1 /\ d.nc = 1
      \/ d.nm = 1 /\ d.vsel = 3 /\ d.nc = 2
      \/ d.nm = 1 /\ d.vsel = 4 /\ d.nc = 0
      \/ d.nm = 0 /\ d.vsel = 1 /\ d.nc = 0 }

\* The mesh-header offset a walk of file d is started with.
HdrArg(d) ==
  CASE d.mal = "hdr0" -> 0
    [] d.mal = "far" ->
         Len(FileOf(d)) - BODY_OFFSET - OffsetOf(HGPMeshHeader, "mesh_offset") - 2
    [] d.mal = "wrap" -> 0 - BODY_OFFSET
    [] OTHER -> HdrOff

---------------------------------------------------------------------------
(* What both walkers share.                                                *)

\* The switch with case 93 falling into case 89.
VertexSwitchFallThrough(vt) ==
  CASE vt = 89 \/ vt = 93 -> [stride |-> 36, unknown |-> FALSE]
    [] OTHER -> [stride |-> 0, unknown |-> TRUE]

\* The switch on vertex_type: the stride, and whether the default branch
\* (the fprintf to stderr) was taken.
VertexSwitch(vt) ==
  CASE vt = 89 -> [stride |-> 36, unknown |-> FALSE]
    [] vt = 93 -> [stride |-> 56, unknown |-> FALSE]
    [] OTHER -> [stride |-> 0, unknown |-> TRUE]

\* int vertex_buffer_idx = mesh->vertex_buffer_idx - 1;
VertexIndex(vbi) == SubOneToInt(vbi)

\* A list that takes no chunk without elements.
AddChunkWithElements(w, c) ==
  IF c.num_elements = 0 THEN w
  ELSE IF Len(w.out) < MaxOut
    THEN [w EXCEPT !.out = Append(@, c)]
    ELSE [w EXCEPT !.dropped = TRUE]

\* Model::addChunk.  The modelled list holds MaxOut chunks; a chunk added
\* to a full list is not kept and the loss is noted.
AddChunk(w, c) ==
  IF Len(w.out) < MaxOut
    THEN [w EXCEPT !.out = Append(@, c)]
    ELSE [w EXCEPT !.dropped = TRUE]

\* The line written to stderr for an unknown vertex type.
Report(w, vt) ==
  IF Len(w.diag) < MaxDiag THEN [w EXCEPT !.diag = Append(@, vt)] ELSE w

\* vertexBuffers[idx].stride = stride, for idx inside the vector.
StoreStride(w, idx, stride) == [w EXCEPT !.vb[idx + 1] = stride]

InVector(w, idx) == idx >= 0 /\ idx < Len(w.vb)

\* The outcomes of the store: inside the vector it is done; outside it the
\* behaviour is undefined: the process dies, or runs on with the vector as
\* it was.
StoreOutcomes(inside) == IF inside THEN {"store"} ELSE {"crash", "lost"}

\* What a read outside the buffer yields when the process survives it:
\* zero, or a value that happens to be the offset of a mesh record.
Garbage == {0, MeshOff(1)}

\* The outcomes of a step that reads the buffer: a value to stand for
\* what was read outside it, or -1 when the process dies.
ReadOutcomes(allInside) == IF allInside THEN {0} ELSE {-1} \cup Garbage

Running == {"entry", "mesh", "chunk", "meshnext"}

Walker(pc, hdr, T, out, vb) ==
  [pc |-> pc, hdr |-> hdr, T |-> T, at |-> 0, idx |-> 0, vstart |-> 0,
   out |-> out, dropped |-> FALSE, vb |-> vb, diag |-> <<>>, oob |-> FALSE]

---------------------------------------------------------------------------
(* HGPModel::processMesh, src/hgp.cpp: the file is a buffer in memory and  *)
(* a record is read through a pointer into it.                             *)

\* OFFSET(off): body + off, as a position in the buffer; -1 when it lies
\* beyond any buffer (the pointer is wider than 32 bits and does not wrap).
OFFSET(off) ==
  IF off >= 0 /\ off <= 2^30 THEN BODY_OFFSET + off ELSE -1

\* The position of ((struct layout *)OFFSET(off))->f.
Member(off, layout, f) ==
  IF OFFSET(off) < 0 THEN -1 ELSE OFFSET(off) + OffsetOf(layout, f)

Deref32(img, a, g) == IF InFile(img, a, 4) THEN U32At(img, a) ELSE g
Deref16(img, a, g) == IF InFile(img, a, 2) THEN U16At(img, a) ELSE g

\* The walk's state at the call: the arguments, the model's chunk list and
\* the caller's vertex buffers; chunkp is the pointer chunk_data.
BulkStart(hdr, T, out, vb) ==
  Walker("entry", hdr, T, out, vb) @@ [chunkp |-> 0]

BulkDies(b) == [b EXCEPT !.pc = "crashed"]

\* Lines 186-194: the two zero checks, the mesh header, the first mesh.
BulkEntryStep(img, b) ==
  IF b.hdr = 0 THEN { [b EXCEPT !.pc = "ret"] }
  ELSE
    LET a == Member(b.hdr, HGPMeshHeader, "mesh_offset")
        inside == InFile(img, a, 4)
        seen == [b EXCEPT !.oob = @ \/ ~inside]
    IN  { IF g = -1 THEN BulkDies(seen)
          ELSE LET mesh_offset == Deref32(img, a, g)
               IN  IF mesh_offset = 0 THEN [seen EXCEPT !.pc = "ret"]
                   ELSE [seen EXCEPT !.pc = "mesh", !.at = mesh_offset] :
          g \in ReadOutcomes(inside) }

\* Lines 197-215: the stride of the mesh, stored in its vertex buffer, and
\* the head of its chunk chain.
BulkMeshStep(img, b) ==
  LET avt == Member(b.at, HGPMesh, "vertex_type")
      avb == Member(b.at, HGPMesh, "vertex_buffer_idx")
      aco == Member(b.at, HGPMesh, "chunk_offset")
      inside == InFile(img, avt, 4) /\ InFile(img, avb, 4) /\ InFile(img, aco, 4)
      seen == [b EXCEPT !.oob = @ \/ ~inside]
  IN  UNION {
        IF g = -1 THEN { BulkDies(seen) }
        ELSE
          LET vt == Deref32(img, avt, g)
              sw == VertexSwitch(vt)
              told == IF sw.unknown THEN Report(seen, vt) ELSE seen
              idx == VertexIndex(Deref32(img, avb, g))
              chunk_offset == Deref32(img, aco, g)
          IN  { IF k = "crash" THEN BulkDies([told EXCEPT !.idx = idx])
                ELSE [(IF k = "store" THEN StoreStride(told, idx, sw.stride)
                       ELSE told)
                      EXCEPT !.pc = "chunk", !.idx = idx,
                             !.chunkp = chunk_offset,
                             !.vstart = Len(b.out)] :
                k \in StoreOutcomes(InVector(b, idx)) } :
        g \in ReadOutcomes(inside) }

\* Lines 218-231: one chunk record becomes one chunk of the model.
BulkChunkStep(img, b) ==
  LET ama == Member(b.at, HGPMesh, "material_idx")
      apt == Member(b.chunkp, HGPChunk, "primitive_type")
      ane == Member(b.chunkp, HGPChunk, "num_elements")
      aeo == Member(b.chunkp, HGPChunk, "elements_offset")
      anx == Member(b.chunkp, HGPChunk, "next_offset")
      heads == InFile(img, ama, 4) /\ InFile(img, apt, 4)
               /\ InFile(img, ane, 2) /\ InFile(img, aeo, 4)
               /\ InFile(img, anx, 4)
  IN  UNION {
        LET num == Deref16(img, ane, IF g = -1 THEN 0 ELSE g)
            src == OFFSET(Deref32(img, aeo, IF g = -1 THEN 0 ELSE g))
            inside == heads /\ (num = 0 \/ InFile(img, src, 2 * num))
            seen == [b EXCEPT !.oob = @ \/ ~inside]
        IN  { IF h = -1 THEN BulkDies(seen)
              ELSE
                LET chunk ==
                      [vertex_buffer_idx |-> b.idx,
                       material_idx |-> Deref32(img, ama, g),
                       primitive_type |-> Deref32(img, apt, g),
                       num_elements |-> num,
                       element_buffer |->
                         [i \in 1..num |->
                            IF src < 0 THEN h
                            ELSE Deref16(img, src + 2 * (i - 1), h)],
                       transformation |-> b.T]
                    next_offset == Deref32(img, anx, g)
                    added == AddChunk(seen, chunk)
                IN  IF next_offset # 0
                      THEN [added EXCEPT !.chunkp = next_offset]
                      ELSE [added EXCEPT !.pc = "meshnext"] :
              h \in IF g = -1 THEN {-1} ELSE ReadOutcomes(inside) } :
        g \in ReadOutcomes(heads) }

\* Line 232: the mesh chain's link.
BulkMeshNextStep(img, b) ==
  LET a == Member(b.at, HGPMesh, "next_offset")
      inside == InFile(img, a, 4)
      seen == [b EXCEPT !.oob = @ \/ ~inside]
  IN  { IF g = -1 THEN BulkDies(seen)
        ELSE LET next_offset == Deref32(img, a, g)
             IN  IF next_offset # 0
                   THEN [seen EXCEPT !.pc = "mesh", !.at = next_offset]
                   ELSE [seen EXCEPT !.pc = "ret"] :
        g \in ReadOutcomes(inside) }

---------------------------------------------------------------------------
(* The stream of Mortar::LSW: a cursor over the file.  A read that would   *)
(* pass the end of the file is refused (the cursor's ok turns FALSE, as an *)
(* exception would end the walk); a seek only moves the cursor.  stray     *)
(* notes a seek whose 32 bit target wrapped around.                        *)

Cursor == [pos |-> 0, ok |-> TRUE, stray |-> FALSE, hit |-> FALSE]

\* stream.seek(body_offset + off, SEEK_SET): the sum is a uint32_t.
SeekBody(c, body_offset, off) ==
  LET p == AddU32(off, body_offset)
  IN  [c EXCEPT !.pos = IF p < 0 THEN -1 ELSE p,
                !.stray = (off < 0 /\ p >= 0)]

\* stream.seek(n, SEEK_CUR)
SeekCur(c, n) == IF c.pos < 0 THEN c ELSE [c EXCEPT !.pos = @ + n]

\* The element of a set of one element.
The(S) == CHOOSE x \in S : TRUE

\* stream.readUint32() and stream.readUint16() on the stream as the
\* operations before left it (c): the cursor after the read and the value
\* v.  hit notes a read done after a seek that wrapped.
ReadAt(img, cur, w) ==
  The({ IF c.ok /\ InFile(img, c.pos, w)
          THEN [c |-> [c EXCEPT !.pos = @ + w, !.hit = @ \/ c.stray],
                v |-> IF w = 4 THEN U32At(img, c.pos)
                      ELSE U16At(img, c.pos)]
          ELSE [c |-> [c EXCEPT !.ok = FALSE], v |-> 0] :
        c \in {cur} })

readUint32(img, c) == ReadAt(img, c, 4)
readUint16(img, c) == ReadAt(img, c, 2)

RECURSIVE ReadElementsFromOne(_, _, _)
\* The loop started at i = 1.
ReadElementsFromOne(img, c, n) ==
  IF n <= 1 THEN [c |-> c, v |-> <<>>]
  ELSE LET r == readUint16(img, c)
           rest == ReadElementsFromOne(img, r.c, n - 1)
       IN  IF r.c.ok THEN [c |-> rest.c, v |-> <<r.v>> \o rest.v]
           ELSE [c |-> r.c, v |-> <<>>]

RECURSIVE ReadElements(_, _, _)
\* for (i = 0; i < n; i++) element_buffer[i] = stream.readUint16();
ReadElements(img, c, n) ==
  IF n = 0 THEN [c |-> c, v |-> <<>>]
  ELSE LET r == readUint16(img, c)
           rest == ReadElements(img, r.c, n - 1)
       IN  IF r.c.ok THEN [c |-> rest.c, v |-> <<r.v>> \o rest.v]
           ELSE [c |-> r.c, v |-> <<>>]

---------------------------------------------------------------------------
(* Mortar::LSW::processMesh, src/unnamed/part_000: the same walk over the  *)
(* stream, each record copied into a struct when it is reached.            *)

readMeshInfo(img, c, body_offset, mesh_offset) ==
  LET r1 == readUint32(img, SeekBody(c, body_offset, mesh_offset))
      r2 == readUint32(img, SeekCur(r1.c, 4))
      r3 == readUint32(img, r2.c)
      r4 == readUint32(img, SeekCur(r3.c, 3 * 4))
      r5 == readUint32(img, SeekCur(r4.c, 4 * 4))
  IN  [c |-> r5.c,
       v |-> [next_offset |-> r1.v, material_idx |-> r2.v,
              vertex_type |-> r3.v, vertex_block_idx |-> r4.v,
              chunk_offset |-> r5.v]]

readChunkInfo(img, c, body_offset, chunk_offset) ==
  LET r1 == readUint32(img, SeekBody(c, body_offset, chunk_offset))
      r2 == readUint32(img, r1.c)
      r3 == readUint16(img, r2.c)
      r4 == readUint32(img, SeekCur(r3.c, 2))
  IN  [c |-> r4.c,
       v |-> [next_offset |-> r1.v, primitive_type |-> r2.v,
              num_elements |-> r3.v, elements_offset |-> r4.v]]

\* The walk's state at the call; mesh and chunk are the structs mesh and
\* chunk_data, cur is the stream.
StreamStart(hdr, T, out, vb) ==
  Walker("entry", hdr, T, out, vb)
  @@ [cur |-> Cursor,
      mesh |-> [next_offset |-> 0, material_idx |-> 0, vertex_type |-> 0,
                vertex_block_idx |-> 0, chunk_offset |-> 0],
      chunk |-> [next_offset |-> 0, primitive_type |-> 0,
                 num_elements |-> 0, elements_offset |-> 0]]

\* The walk after stream operations that left the cursor c: ended by the
\* stream's bounds error, or going on as s.
After(s, c, t) ==
  IF c.ok THEN [t EXCEPT !.cur = c, !.oob = @ \/ c.hit]
  ELSE [s EXCEPT !.pc = "error", !.cur = c, !.oob = @ \/ c.hit]

StreamDies(s) == [s EXCEPT !.pc = "crashed"]

\* Lines 60-74.
StreamEntryStep(img, s, body_offset) ==
  IF s.hdr = 0 THEN { [s EXCEPT !.pc = "ret"] }
  ELSE
    LET r == readUint32(img, SeekCur(SeekBody(s.cur, body_offset, s.hdr),
                                     3 * 4))
        mesh_offset == r.v
        m == readMeshInfo(img, r.c, body_offset, mesh_offset)
    IN  IF ~r.c.ok \/ mesh_offset = 0
          THEN { After(s, r.c, [s EXCEPT !.pc = "ret"]) }
          ELSE { After(s, m.c, [s EXCEPT !.pc = "mesh", !.at = mesh_offset,
                                          !.mesh = m.v]) }

\* Lines 77-96.
StreamMeshStep(img, s, body_offset) ==
  LET sw == VertexSwitch(s.mesh.vertex_type)
      told == IF sw.unknown THEN Report(s, s.mesh.vertex_type) ELSE s
      idx == VertexIndex(s.mesh.vertex_block_idx)
      r == readChunkInfo(img, s.cur, body_offset, s.mesh.chunk_offset)
  IN  { IF k = "crash" THEN StreamDies([told EXCEPT !.idx = idx])
        ELSE LET stored == [(IF k = "store"
                               THEN StoreStride(told, idx, sw.stride)
                               ELSE told)
                            EXCEPT !.idx = idx]
             IN  After(stored, r.c,
                       [stored EXCEPT !.pc = "chunk", !.chunk = r.v,
                                      !.vstart = Len(s.out)]) :
        k \in StoreOutcomes(InVector(s, idx)) }

\* Lines 99-122.
StreamChunkStep(img, s, body_offset) ==
  LET e == ReadElements(img,
                        SeekBody(s.cur, body_offset, s.chunk.elements_offset),
                        s.chunk.num_elements)
      chunk == [vertex_buffer_idx |-> s.idx,
                material_idx |-> s.mesh.material_idx,
                primitive_type |-> s.chunk.primitive_type,
                num_elements |-> s.chunk.num_elements,
                element_buffer |-> e.v,
                transformation |-> s.T]
      added == AddChunk(s, chunk)
      r == readChunkInfo(img, e.c, body_offset, s.chunk.next_offset)
  IN  IF ~e.c.ok THEN { After(s, e.c, s) }
      ELSE IF s.chunk.next_offset # 0
        THEN { After(added, r.c, [added EXCEPT !.chunk = r.v]) }
        ELSE { After(added, e.c, [added EXCEPT !.pc = "meshnext"]) }

\* Lines 124-129.
StreamMeshNextStep(img, s, body_offset) ==
  LET m == readMeshInfo(img, s.cur, body_offset, s.mesh.next_offset)
  IN  IF s.mesh.next_offset # 0
        THEN { After(s, m.c, [s EXCEPT !.pc = "mesh",
                                        !.at = s.mesh.next_offset,
                                        !.mesh = m.v]) }
        ELSE { [s EXCEPT !.pc = "ret"] }

---------------------------------------------------------------------------
(* The two walkers run on the same file, taking steps in turn.             *)

NoStrides == [i \in 1..NumVB |-> -1]
WalkT == <<400>>

BulkTurn(next) ==
  /\ turn = "bulk"
  /\ bulk' \in next
  /\ turn' = (IF strm.pc \in Running THEN "strm" ELSE "bulk")
  /\ UNCHANGED <<file, buf, strm, ctor, mat>>

StreamTurn(next) ==
  /\ turn = "strm"
  /\ strm' \in next
  /\ turn' = (IF bulk.pc \in Running THEN "bulk" ELSE "strm")
  /\ UNCHANGED <<file, buf, bulk, ctor, mat>>

BulkEntry == bulk.pc = "entry" /\ BulkTurn(BulkEntryStep(buf, bulk))
BulkMesh == bulk.pc = "mesh" /\ BulkTurn(BulkMeshStep(buf, bulk))
BulkChunk == bulk.pc = "chunk" /\ BulkTurn(BulkChunkStep(buf, bulk))
BulkMeshNext ==
  bulk.pc = "meshnext" /\ BulkTurn(BulkMeshNextStep(buf, bulk))

StreamEntry ==
  strm.pc = "entry"
  /\ StreamTurn(StreamEntryStep(buf, strm, BODY_OFFSET))
StreamMesh ==
  strm.pc = "mesh"
  /\ StreamTurn(StreamMeshStep(buf, strm, BODY_OFFSET))
StreamChunk ==
  strm.pc = "chunk"
  /\ StreamTurn(StreamChunkStep(buf, strm, BODY_OFFSET))
StreamMeshNext ==
  strm.pc = "meshnext"
  /\ StreamTurn(StreamMeshNextStep(buf, strm, BODY_OFFSET))

IdleBulk == [BulkStart(0, <<>>, <<>>, NoStrides) EXCEPT !.pc = "idle"]
IdleStream == [StreamStart(0, <<>>, <<>>, NoStrides) EXCEPT !.pc = "idle"]
IdleCtor ==
  [pc |-> "idle", i |-> 0, j |-> 0, k |-> 0, slot |-> 0, resume |-> "idle",
   world |-> <<>>, calls |-> <<>>]
IdleMat == [pc |-> "idle", texture_idx |-> 0]

InitWalk ==
  /\ file \in WalkDescs
  /\ buf = FileOf(file)
  /\ bulk = BulkStart(HdrArg(file), WalkT, <<>>, NoStrides)
  /\ strm = StreamStart(HdrArg(file), WalkT, <<>>, NoStrides)
  /\ turn = "bulk"
  /\ ctor = IdleCtor
  /\ mat = IdleMat

BulkNext == BulkEntry \/ BulkMesh \/ BulkChunk \/ BulkMeshNext
StreamNext == StreamEntry \/ StreamMesh \/ StreamChunk \/ StreamMeshNext
NextWalk == BulkNext \/ StreamNext

SpecWalk == InitWalk /\ [][NextWalk]_vars

\* A walker that can take a step does take it: each walk is a sequential
\* program that runs until it returns or dies.
FairWalk == SpecWalk /\ WF_vars(NextWalk)

---------------------------------------------------------------------------
(* HGPModel::HGPModel, src/hgp.cpp.  A Matrix is held as the sequence of   *)
(* the matrices multiplied to make it: the product is only known to be     *)
(* associative.                                                            *)

\* Matrix::operator*
MatMul(a, b) == a \o b

\* transform_matrices[i], static_transform_matrices[0], and the Matrix a
\* std::vector<Matrix>(n) holds before it is assigned.
Local(i) == <<i>>
Static0 == <<100>>
UnsetMatrix == <<200>>

num_meshes == Len(file.tree)
num_layers == file.nlayers
parent_idx(i) == file.tree[i + 1]

\* The loop body with the parent's transform on the left.
ComposeParentFirst(world, i) ==
  LET own == [world EXCEPT ![i + 1] = Local(i)]
  IN  IF parent_idx(i) # -1
        THEN [own EXCEPT ![i + 1] = MatMul(own[parent_idx(i) + 1], own[i + 1])]
        ELSE own

\* Lines 297-302, one iteration of the loop over the mesh tree.
Compose(world, i) ==
  LET own == [world EXCEPT ![i + 1] = Local(i)]
  IN  IF parent_idx(i) # -1
        THEN [own EXCEPT ![i + 1] = MatMul(own[i + 1], own[parent_idx(i) + 1])]
        ELSE own

ComposeStep ==
  /\ ctor.pc = "compose"
  /\ ctor.i < num_meshes
  /\ ctor' = [ctor EXCEPT !.world = Compose(ctor.world, ctor.i),
                          !.i = IF ctor.i + 1 = num_meshes THEN 0 ELSE @ + 1,
                          !.pc = IF ctor.i + 1 = num_meshes
                                   THEN "layers" ELSE "compose"]
  /\ UNCHANGED <<file, buf, bulk, strm, turn, mat>>

\* The loop without its test of the layer's index.
EveryLayer(i) == TRUE

\* Which layers are walked (line 321).
LayerWalked(i) == i = 0 \/ i = 2

\* Lines 319-324: the loop over the layers; after it, setVertexBuffers.
LayerStep ==
  /\ ctor.pc = "layers"
  /\ ctor' = IF ctor.i >= num_layers THEN [ctor EXCEPT !.pc = "done"]
             ELSE IF ~LayerWalked(ctor.i) THEN [ctor EXCEPT !.i = @ + 1]
             ELSE [ctor EXCEPT !.pc = "slot", !.j = 0]
  /\ UNCHANGED <<file, buf, bulk, strm, turn, mat>>

\* The position of layer_headers[i].mesh_header_list_offsets[j].
SlotAddr(i, j) ==
  OFFSET(LayerOff(0)) + SizeOf(HGPLayerHeader) * i
  + OffsetOf(HGPLayerHeader, "mesh_header_list_offsets") + 4 * j

\* this->processMesh(body, hdr, T, vertexBuffers): the walk starts; the
\* constructor goes on at `resume` when it returns.
Call(c, b, hdr, T, resume) ==
  /\ ctor' = [c EXCEPT !.pc = "call", !.resume = resume,
                       !.calls = Append(@, <<hdr, T>>)]
  /\ bulk' = [b EXCEPT !.pc = "entry", !.hdr = hdr, !.T = T]

\* modelTransforms[k].  Outside the vector the behaviour is undefined:
\* the process dies (NoMatrix), or a matrix that is no mesh's is read.
NoMatrix == <<>>
StrayMatrix == <<300>>
WorldOutcomes(world, k) ==
  IF k < Len(world) THEN {world[k + 1]} ELSE {NoMatrix, StrayMatrix}

\* Lines 324-336, one slot of a layer: skipped when its offset is 0, a
\* list of per-mesh headers when j is even, one mesh header when j is odd.
SlotStep ==
  /\ ctor.pc = "slot"
  /\ IF ctor.j = 4
       THEN /\ ctor' = [ctor EXCEPT !.pc = "layers", !.i = @ + 1]
            /\ UNCHANGED bulk
       ELSE
         LET a == SlotAddr(ctor.i, ctor.j)
             inside == InFile(buf, a, 4)
         IN  \E g \in ReadOutcomes(inside) :
               LET slot == Deref32(buf, a, g)
                   next == [ctor EXCEPT !.j = @ + 1]
               IN  IF g = -1
                     THEN ctor' = [ctor EXCEPT !.pc = "crashed"]
                          /\ UNCHANGED bulk
                   ELSE IF slot = 0 THEN ctor' = next /\ UNCHANGED bulk
                   ELSE IF ctor.j % 2 = 0
                     THEN ctor' = [ctor EXCEPT !.pc = "even", !.k = 0,
                                               !.slot = slot]
                          /\ UNCHANGED bulk
                   ELSE \E w \in WorldOutcomes(ctor.world, 0) :
                          IF w = NoMatrix
                            THEN ctor' = [ctor EXCEPT !.pc = "crashed"]
                                 /\ UNCHANGED bulk
                            ELSE Call(next, bulk, slot,
                                      MatMul(Static0, w), "slot")
  /\ UNCHANGED <<file, buf, strm, turn, mat>>

\* Lines 331-332, one iteration of the loop over an even slot's list.
EvenStep ==
  /\ ctor.pc = "even"
  /\ IF ctor.k = num_meshes
       THEN /\ ctor' = [ctor EXCEPT !.pc = "slot", !.j = @ + 1]
            /\ UNCHANGED bulk
       ELSE
         LET a == IF OFFSET(ctor.slot) < 0 THEN -1
                  ELSE OFFSET(ctor.slot) + 4 * ctor.k
             inside == InFile(buf, a, 4)
         IN  \E g \in ReadOutcomes(inside) :
               IF g = -1
                 THEN ctor' = [ctor EXCEPT !.pc = "crashed"]
                      /\ UNCHANGED bulk
                 ELSE Call([ctor EXCEPT !.k = @ + 1], bulk,
                           Deref32(buf, a, g),
                           ctor.world[ctor.k + 1], "even")
  /\ UNCHANGED <<file, buf, strm, turn, mat>>

\* processMesh returns to the constructor.
Return ==
  /\ ctor.pc = "call"
  /\ bulk.pc = "ret"
  /\ ctor' = [ctor EXCEPT !.pc = ctor.resume]
  /\ bulk' = [bulk EXCEPT !.pc = "idle"]
  /\ UNCHANGED <<file, buf, strm, turn, mat>>

CtorStart(n) ==
  [IdleCtor EXCEPT !.pc = IF n = 0 THEN "layers" ELSE "compose",
                   !.world = [x \in 1..n |-> UnsetMatrix]]

InitCtor ==
  /\ file \in CtorDescs
  /\ buf = FileOf(file)
  /\ ctor = CtorStart(Len(file.tree))
  /\ bulk = IdleBulk
  /\ strm = IdleStream
  /\ turn = "bulk"
  /\ mat = IdleMat

NextCtor ==
  ComposeStep \/ LayerStep \/ SlotStep \/ EvenStep \/ Return \/ BulkNext

SpecCtor == InitCtor /\ [][NextCtor]_vars

\* The transform loop alone, over every mesh tree whose parent indices
\* name a node of the tree or are -1.
Trees(n) == [1..n -> -1..(n - 1)]

TreeDescs ==
  [nm : {0}, vsel : {1}, nc : {0}, ne : {1}, mal : {"none"},
   tree : UNION { Trees(n) : n \in 0..MaxTree }, nlayers : {0}, pat : {0}]

InitTree ==
  /\ file \in TreeDescs
  /\ buf = FileOf(file)
  /\ ctor = CtorStart(Len(file.tree))
  /\ bulk = IdleBulk
  /\ strm = IdleStream
  /\ turn = "bulk"
  /\ mat = IdleMat

SpecTree == InitTree /\ [][ComposeStep]_vars

---------------------------------------------------------------------------
(* The material loop of HGPModel::HGPModel, lines 274-286: one material,   *)
(* whose texture_idx is the int16_t held in two bytes of the file.         *)

\* a & b for an int a and a non-negative int b.
IntAnd(a, b) == BitAnd(IF a < 0 THEN a - MinInt32 ELSE a, b, 31)

\* A little-endian int16_t.
ToInt16(b0, b1) ==
  LET u == b0 + 256 * b1 IN IF u >= 2^15 THEN u - 2^16 ELSE u

\* The mapping without the test for -1.
TextureIndexNoSentinel(texture_idx) ==
  IF IntAnd(texture_idx, 32768) # 0
    THEN IntAnd(texture_idx, 32767)
    ELSE texture_idx

\* Lines 282-285.
TextureIndex(texture_idx) ==
  IF texture_idx # -1 /\ IntAnd(texture_idx, 32768) # 0
    THEN IntAnd(texture_idx, 32767)
    ELSE texture_idx

MaterialStep ==
  /\ mat.pc = "material"
  /\ mat' = [mat EXCEPT !.pc = "done",
                        !.texture_idx = TextureIndex(ToInt16(buf[1], buf[2]))]
  /\ UNCHANGED <<file, buf, bulk, strm, turn, ctor>>

\* Of the file only the two bytes of the material's texture_idx are held.
InitMat ==
  /\ mat = [pc |-> "material", texture_idx |-> 0]
  /\ buf \in { <<b0, b1>> : b0 \in 0..255, b1 \in 0..255 }
  /\ file \in { d \in TreeDescs : d.tree = <<>> }
  /\ ctor = IdleCtor
  /\ bulk = IdleBulk
  /\ strm = IdleStream
  /\ turn = "bulk"

SpecMat == InitMat /\ [][MaterialStep]_vars

---------------------------------------------------------------------------
(* What a file holds, for stating what a walk of it must give.             *)

\* Every record of the file lies inside it.
Whole(d) == d.mal # "cut"

IsMesh(d, at) == \E m \in 1..d.nm : MeshOff(m) = at
MeshNo(d, at) == CHOOSE m \in 1..d.nm : MeshOff(m) = at

\* Mesh m's chunk chain has at least one record and ends with a 0 link.
ChainEnds(d, m) == NumCh(d, m) >= 1 /\ ~(d.mal = "chunkloop" /\ m = 1)

\* The chunks a walker appended for the mesh it is at.
AppendedBy(w) ==
  [x \in 1..(Len(w.out) - w.vstart) |-> w.out[w.vstart + x]]

Both(P(_)) == P(bulk) /\ P(strm)
Ended(w) == w.pc \notin Running

---------------------------------------------------------------------------
(* C1: run on the same file, mesh-header offset, transform and vertex      *)
(* buffers, the two walks append the same chunks and leave the same        *)
(* strides.                                                                *)
C1_Interchangeable ==
  (Ended(bulk) /\ Ended(strm)) => (bulk.out = strm.out /\ bulk.vb = strm.vb)

\* The same, over the files that hold all their records and name only
\* vertex blocks that exist.
NamesBlocks(d) == \A m \in 1..d.nm : Prof(d, m)[2] \in 1..NumVB
C1_OnSoundFiles ==
  (Ended(bulk) /\ Ended(strm) /\ file.mal \in {"none", "hdr0"}
   /\ NamesBlocks(file))
  => (bulk.out = strm.out /\ bulk.vb = strm.vb /\ bulk.pc = strm.pc)

\* A file cut short: the bulk walk ran through it, the stream walk failed.
C1_Divergence ==
  /\ file.mal = "cut"
  /\ bulk.pc = "ret" /\ strm.pc = "error"
  /\ Len(bulk.out) > Len(strm.out)

---------------------------------------------------------------------------
(* C2: a mesh whose chunk chain has N records, the last with next_offset   *)
(* 0, gets exactly N chunks, in chain order, each with its record's        *)
(* num_elements and those elements, the mesh's material_idx and the        *)
(* transform passed to the walk.                                           *)
Claimed(ch) ==
  [material_idx |-> ch.material_idx, num_elements |-> ch.num_elements,
   element_buffer |-> ch.element_buffer, transformation |-> ch.transformation]

ChainChunks(d, m, T) ==
  [c \in 1..NumCh(d, m) |->
     [material_idx |-> MatIdx(m), num_elements |-> NumEl(d, m, c),
      element_buffer |-> [e \in 1..NumEl(d, m, c) |-> Elem(m, c, e)],
      transformation |-> T]]

ChainDecoded(w) ==
  (/\ w.pc = "meshnext" /\ ~w.dropped
   /\ Whole(file) /\ IsMesh(file, w.at)
   /\ ChainEnds(file, MeshNo(file, w.at)))
  => [x \in DOMAIN AppendedBy(w) |-> Claimed(AppendedBy(w)[x])]
     = ChainChunks(file, MeshNo(file, w.at), w.T)

C2_ChunkChain == Both(ChainDecoded)

C2_Witness ==
  /\ file.mal = "none"
  /\ strm.pc = "meshnext" /\ IsMesh(file, strm.at)
  /\ NumCh(file, MeshNo(file, strm.at)) = MaxChunks
  /\ Len(strm.out) - strm.vstart = MaxChunks
  /\ strm.out[Len(strm.out)].num_elements > 0
  /\ bulk.pc = "meshnext" /\ bulk.at = strm.at
  /\ Len(bulk.out) - bulk.vstart = MaxChunks

---------------------------------------------------------------------------
(* C3: the stride stored in the vertex buffer a mesh names is 36 for       *)
(* vertex type 89, 56 for 93 and 0 for any other, which is reported; the   *)
(* walk goes on to the mesh's chunks, and a file that is sound but for     *)
(* unknown vertex types is walked without failure.                         *)
StrideOf(vt) == IF vt = 89 THEN 36 ELSE IF vt = 93 THEN 56 ELSE 0

StrideStored(w) ==
  (w.pc = "chunk" /\ Whole(file) /\ IsMesh(file, w.at) /\ InVector(w, w.idx))
  => LET vt == Prof(file, MeshNo(file, w.at))[1]
     IN  /\ w.vb[w.idx + 1] = StrideOf(vt)
         /\ vt \notin {89, 93} => (w.diag # <<>> /\ w.diag[Len(w.diag)] = vt)

NoFailure(w) ==
  (file.mal \in {"none", "hdr0"} /\ NamesBlocks(file))
  => w.pc \notin {"error", "crashed"}

C3_Stride == Both(StrideStored) /\ Both(NoFailure)

C3_Witness ==
  /\ file.mal = "none" /\ NamesBlocks(file)
  /\ bulk.pc = "ret" /\ strm.pc = "ret"
  /\ bulk.diag # <<>> /\ strm.diag # <<>>
  /\ bulk.vb = <<0, 56>> \o [i \in 1..(NumVB - 2) |-> -1]
  /\ strm.vb = bulk.vb
  /\ Len(strm.out) >= 2

---------------------------------------------------------------------------
(* C6: no decode step reads a position outside the file; a read that would *)
(* is refused.                                                             *)
C6_ReadsInBounds == ~bulk.oob /\ ~strm.oob

\* The bulk walk read outside the buffer and returned as if nothing had
\* happened.
C6_ReadOutside == bulk.oob /\ bulk.pc = "ret" /\ file.mal = "far"

---------------------------------------------------------------------------
(* C7: for every mesh visited the index vertex_block_idx - 1, used for the *)
(* store of the stride and recorded in the mesh's chunks, is one of        *)
(* 0..num_vertex_blocks - 1.                                               *)
IndexInRange(w) ==
  /\ w.pc = "chunk" => w.idx \in 0..(Len(w.vb) - 1)
  /\ \A x \in DOMAIN w.out :
       w.out[x].vertex_buffer_idx \in 0..(Len(w.vb) - 1)

C7_IndexInRange == Both(IndexInRange)

\* A chunk that names vertex buffer -1.
C7_OutOfRange ==
  /\ file.mal = "none"
  /\ \E x \in DOMAIN strm.out : strm.out[x].vertex_buffer_idx = -1
  /\ \E x \in DOMAIN bulk.out : bulk.out[x].vertex_buffer_idx = -1

---------------------------------------------------------------------------
(* C9: on every file, those with a cycle of next_offset links included,    *)
(* each walk eventually stops.                                             *)
C9_WalkStops == <>(Ended(bulk) /\ Ended(strm))

\* Both walks are on their way round a cycle of meshes for a further time,
\* the chunk list full.
C9_Cycling ==
  /\ file.mal = "meshloop"
  /\ bulk.pc = "mesh" /\ bulk.dropped
  /\ strm.dropped

---------------------------------------------------------------------------
(* C10: every mesh visited gets at least one chunk; a mesh whose           *)
(* chunk_offset is 0 gets the chunk decoded from the record at body offset *)
(* 0.                                                                      *)
Block0Chunk(w) ==
  [vertex_buffer_idx |-> w.idx, material_idx |-> MatIdx(MeshNo(file, w.at)),
   primitive_type |-> Block0Vals.primitive_type[1],
   num_elements |-> 1,
   element_buffer |-> << U16At(buf, BODY_OFFSET + 8) >>,
   transformation |-> w.T]

ChunkPerMesh(w) ==
  w.pc = "meshnext" =>
    /\ Len(w.out) > w.vstart \/ w.dropped
    /\ (/\ ~w.dropped /\ Whole(file) /\ IsMesh(file, w.at)
        /\ NumCh(file, MeshNo(file, w.at)) = 0)
       => AppendedBy(w) = << Block0Chunk(w) >>

C10_ChunkPerMesh == Both(ChunkPerMesh)

C10_Witness ==
  /\ file.mal = "none" /\ IsMesh(file, strm.at)
  /\ NumCh(file, MeshNo(file, strm.at)) = 0
  /\ strm.pc = "meshnext" /\ bulk.pc = "meshnext" /\ bulk.at = strm.at
  /\ Len(strm.out) = strm.vstart + 1
  /\ Len(bulk.out) = bulk.vstart + 1

---------------------------------------------------------------------------
(* C4: the texture index stored for a material whose texture_idx is t is   *)
(* -1 when t is -1, the low 15 bits of t when t is not -1 and has bit      *)
(* 0x8000 set, and t otherwise; it is -1 or one of 0..32767.               *)
C4_TextureIndex ==
  mat.pc = "done" =>
    LET t == ToInt16(buf[1], buf[2])
        bit15 == buf[2] >= 128
        low15 == buf[1] + 256 * (buf[2] % 128)
        stored == mat.texture_idx
    IN  /\ t = -1 => stored = -1
        /\ (t # -1 /\ bit15) => stored = low15
        /\ ~bit15 => stored = t
        /\ stored = -1 \/ stored \in 0..32767

\* 0x8005 gave 5.
C4_Witness ==
  mat.pc = "done" /\ buf = <<5, 128>> /\ mat.texture_idx = 5

---------------------------------------------------------------------------
(* C5: in a mesh tree whose parent indices are -1 or smaller than the      *)
(* node's own index, once node i is passed world[i] is local[i] for a      *)
(* root and local[i] * world[parent_idx[i]] otherwise, which is the        *)
(* product of the local transforms from i up to its root.                  *)
RECURSIVE PathProduct(_, _)
PathProduct(tree, i) ==
  IF tree[i + 1] = -1 THEN Local(i)
  ELSE MatMul(Local(i), PathProduct(tree, tree[i + 1]))

ParentsFirst(tree) ==
  \A i \in 0..(Len(tree) - 1) : tree[i + 1] = -1 \/ tree[i + 1] < i

Passed(i) == ctor.pc # "compose" \/ i < ctor.i

C5_WorldTransforms ==
  (ctor.pc # "idle" /\ ParentsFirst(file.tree)) =>
    \A i \in 0..(num_meshes - 1) :
      Passed(i) =>
        /\ ctor.world[i + 1] =
             (IF parent_idx(i) = -1 THEN Local(i)
              ELSE MatMul(Local(i), ctor.world[parent_idx(i) + 1]))
        /\ ctor.world[i + 1] = PathProduct(file.tree, i)

\* A chain of three meshes: the last one's transform is the product of
\* the three local transforms, its own first.
C5_Witness ==
  /\ file.tree = <<-1, 0, 1>>
  /\ ctor.pc = "layers"
  /\ ctor.world = << <<0>>, <<1, 0>>, <<2, 1, 0>> >>

---------------------------------------------------------------------------
(* C8: the walker is invoked for the layers 0 and 2 below num_layers, slot *)
(* by slot in ascending order: not at all for a slot that is 0, num_meshes *)
(* times for an even slot, the k-th time on the k-th entry of the slot's   *)
(* offset array with world[k], once for an odd slot, on the slot's offset  *)
(* with static[0] * world[0]; and for nothing else.                        *)
SlotCalls(d, i, j) ==
  IF SlotVal(d, i, j) = 0 THEN <<>>
  ELSE IF j % 2 = 0
    THEN [k \in 1..Len(d.tree) |->
            <<ArrVal(d, i, j, k - 1), PathProduct(d.tree, k - 1)>>]
    ELSE << <<SlotVal(d, i, j),
              MatMul(Static0, IF d.tree = <<>> THEN <<>>
                              ELSE PathProduct(d.tree, 0))>> >>

ExpectedCalls(d) ==
  Flat([x \in 1..d.nlayers |->
          IF x - 1 \in {0, 2}
            THEN Flat([y \in 1..4 |-> SlotCalls(d, x - 1, y - 1)])
            ELSE <<>>])

Offsets(calls) == [x \in DOMAIN calls |-> calls[x][1]]
IsPrefix(a, b) == Len(a) <= Len(b) /\ a = SubSeq(b, 1, Len(a))

\* With no mesh there is no world[0], and only the offsets are compared.
C8_Dispatch ==
  ctor.pc # "idle" =>
    /\ IsPrefix(Offsets(ctor.calls), Offsets(ExpectedCalls(file)))
    /\ num_meshes >= 1 => IsPrefix(ctor.calls, ExpectedCalls(file))
    /\ ctor.pc = "done" => Len(ctor.calls) = Len(ExpectedCalls(file))

\* Three layers, two meshes in a chain: the constructor is through, after
\* invocations for an even slot and for an odd one.
C8_Witness ==
  /\ ctor.pc = "done"
  /\ num_layers = 3 /\ file.tree = <<-1, 0>>
  /\ \E x \in DOMAIN ctor.calls : ctor.calls[x][2] = <<1, 0>>
  /\ \E x \in DOMAIN ctor.calls : ctor.calls[x][2] = Static0 \o <<0>>
  /\ \E x \in DOMAIN ctor.calls : ctor.calls[x][1] = 0
  /\ Len(bulk.out) >= 2

====
